---- MODULE Spec2Model ----
(***************************************************************************)
(* Model of the Report Gateway (src/app.py): the text extraction function  *)
(* clean_json_text and the POST /api/analyze handler.                      *)
(*                                                                         *)
(* Texts are sequences of lexemes, not of characters: the fence marker,    *)
(* the language tag in its two letter cases, a whitespace character, a     *)
(* piece of non-JSON text and three complete JSON documents.  Messages of  *)
(* exceptions are sequences too; the digits "4", "0", "3" are lexemes of   *)
(* their own so that the handler's substring test is computed.             *)
(***************************************************************************)
EXTENDS Integers, Sequences, FiniteSets, TLC

\* ---------------------------------------------------------------- bounds
MaxTextLen == 5
MaxDetailLen == 3

\* ---------------------------------------------------------------- texts
\* the three-backtick fence marker
FENCE == "<fence>"
TAG == "json"
TAGUP == "JSON"
WS == " "
JUNK == "oops"
OBJ2 == "{emailText:A,htmlDashboard:B}"
OBJ1 == "{emailText:A}"
ARR == "[]"

Lexemes == {FENCE, TAG, TAGUP, WS, JUNK, OBJ2, OBJ1, ARR}

SeqsUpTo(S, n) == UNION {[1..k -> S] : k \in 0..n}

Texts == SeqsUpTo(Lexemes, MaxTextLen)

AllWs(t, a, b) == \A m \in a..b : t[m] = WS

\* str.strip(): drop the leading and the trailing whitespace
strip(t) ==
  LET nonws == {m \in 1..Len(t) : t[m] # WS}
  IN  IF nonws = {} THEN << >>
      ELSE LET lo == CHOOSE m \in nonws : \A n \in nonws : m <= n
               hi == CHOOSE m \in nonws : \A n \in nonws : m >= n
           IN  SubSeq(t, lo, hi)

\* the tail of the pattern (whitespace run, then the closing fence) matches t
\* from position e on
ClosesAt(t, e) ==
  \E k \in e..Len(t) : t[k] = FENCE /\ AllWs(t, e, k - 1)

\* The ways the pattern (fence, json, whitespace run, group 1, whitespace run,
\* fence) matches t with the opening fence at i: <<a, e>> where the first
\* whitespace run takes t[i+2..a-1] and group 1 is t[a..e-1].
\* The tag is matched as written, in lower case (no re.IGNORECASE).
MatchesAt(t, i) ==
  IF i + 1 <= Len(t) /\ t[i] = FENCE /\ t[i + 1] = TAG
  THEN {ae \in ((i + 2)..(Len(t) + 1)) \X ((i + 2)..(Len(t) + 1)) :
          /\ AllWs(t, i + 2, ae[1] - 1)
          /\ ae[1] <= ae[2]
          /\ ClosesAt(t, ae[2])}
  ELSE {}

\* the match the backtracking engine prefers: the first whitespace run greedy,
\* then group 1 lazy
PreferredMatch(t, i) ==
  LET M == MatchesAt(t, i)
      a == CHOOSE x \in {ae[1] : ae \in M} : \A y \in {ae[1] : ae \in M} : x >= y
      E == {ae[2] : ae \in {m \in M : m[1] = a}}
      e == CHOOSE x \in E : \A y \in E : x <= y
  IN  <<a, e>>

\* re.search: the leftmost position with a match, 0 when there is none
search(t) ==
  LET S == {i \in 1..Len(t) : MatchesAt(t, i) # {}}
  IN  IF S = {} THEN 0 ELSE CHOOSE i \in S : \A j \in S : i <= j

clean_json_text(t) ==
  IF t = << >> THEN << >>
  ELSE LET i == search(t)
       IN  IF i # 0
           THEN LET g == PreferredMatch(t, i) IN SubSeq(t, g[1], g[2] - 1)
           ELSE strip(t)

\* json.loads: surrounding whitespace is skipped, exactly one document must remain
JsonDocs == {OBJ2, OBJ1, ARR}

json_valid(t) == LET d == strip(t) IN Len(d) = 1 /\ d[1] \in JsonDocs

JObject(f) == [type |-> "object", fields |-> f]
JArray == [type |-> "array", fields |-> << >>]

json_loads(t) ==
  LET d == strip(t)[1]
  IN  IF d = OBJ2 THEN JObject([emailText |-> "A", htmlDashboard |-> "B"])
      ELSE IF d = OBJ1 THEN JObject([emailText |-> "A"])
      ELSE JArray

JSONDecodeErrorMsg == <<"Expecting value">>

VARIABLES pc, env, req, mode, up, calls, resp, log, cpc, cin, cout, cout2

vars == <<pc, env, req, mode, up, calls, resp, log, cpc, cin, cout, cout2>>
handlerVars == <<pc, env, req, mode, up, calls, resp, log>>
cleanVars == <<cpc, cin, cout, cout2>>

\* ------------------------------------------------------- configuration
\* ACCESS_TOKEN, read once at import: the default of the source
DefaultToken == <<"y", "u", "K", "V", "e", "k", "2", "4">>
AccessTokens == {DefaultToken}

\* API_KEY in the environment: not set, set to the empty string, or set
ApiKeys == {"<unset>", "", "key"}

Envs == [ACCESS_TOKEN : AccessTokens, API_KEY : ApiKeys]

\* ------------------------------------------------------------ requests
\* The Authorization header: absent (headers.get gives None) or a string
NoHeader == [present |-> FALSE, value |-> << >>]
HeaderValues ==
  AccessTokens \cup {<< >>, <<"y", "u", "K", "V">>, <<"y", "u", "K", "V", "e", "k", "2", "5">>}
Headers == {NoHeader} \cup {[present |-> TRUE, value |-> v] : v \in HeaderValues}

\* The body as request.json sees it: not JSON (or not sent as JSON), a JSON
\* document that is not an object, or an object whose context field is absent,
\* present but falsy (null, {}, [], "", 0) or present and truthy, and whose
\* diagnosticMode field is absent, false or true.
Bodies ==
  {[json |-> "invalid", context |-> "absent", diagnosticMode |-> "absent"],
   [json |-> "array", context |-> "absent", diagnosticMode |-> "absent"]}
  \cup [json : {"object"}, context : {"absent", "falsy", "present"},
        diagnosticMode : {"absent", "false", "true"}]

NoRequest == [headers |-> NoHeader, body |-> [json |-> "none", context |-> "absent",
                                              diagnosticMode |-> "absent"]]

\* ----------------------------------------------------------- responses
NoResponse == [status |-> 0, kind |-> "none", json |-> JArray]

\* jsonify(value), status
Json(status, value) == [status |-> status, kind |-> "json", json |-> value]
ErrorJson(status, msg) == Json(status, JObject([error |-> msg]))

\* An exception that leaves the view function: the framework answers 500 with
\* its own page (the debugger's page under debug=True), not with JSON
Unhandled == [status |-> 500, kind |-> "html", json |-> JArray]

Entry(level, msg, data) == [level |-> level, msg |-> msg, data |-> data]

\* what a run of handler code leaves behind: a response, or an outbound call
Respond(r, entries) == [call |-> FALSE, mode |-> "none", resp |-> r, log |-> entries]
Call(m, entries) == [call |-> TRUE, mode |-> m, resp |-> NoResponse, log |-> entries]

\* ----------------------------------------------- upstream (generation API)
\* An exception of the call: the HTTP status of the API's answer (0: none, the
\* failure is a network error) and the rest of the message
Codes == {403, 429, 500, 0}
DetailChars == {"4", "0", "3", "x"}
Details == SeqsUpTo(DetailChars, MaxDetailLen)
Errors == [code : Codes, detail : Details]

CodeDigits(c) ==
  IF c = 403 THEN <<"4", "0", "3">>
  ELSE IF c = 429 THEN <<"4", "2", "9">>
  ELSE IF c = 500 THEN <<"5", "0", "0">>
  ELSE << >>

\* str(e)
str(e) == CodeDigits(e.code) \o e.detail

NoUpstream == [kind |-> "none", text |-> << >>, err |-> [code |-> 0, detail |-> << >>]]
Returned(t) == [kind |-> "returned", text |-> t, err |-> [code |-> 0, detail |-> << >>]]
Raised(e) == [kind |-> "raised", text |-> << >>, err |-> e]

\* "403" in err_msg
Contains403(m) ==
  \E i \in 1..(Len(m) - 2) : m[i] = "4" /\ m[i + 1] = "0" /\ m[i + 2] = "3"

\* -------------------------------------------------------------- handler
\* outer_except without the except clause: the exception leaves the view
outer_except_reraise(msg) ==
  Respond(Unhandled, <<Entry("error", "AI Synthesis failed with unhandled exception", msg)>>)

\* except Exception as e (the handler's outer try)
outer_except(msg) ==
  LET entries == <<Entry("error", "AI Synthesis failed with unhandled exception", msg)>>
  IN  IF Contains403(msg)
      THEN Respond(ErrorJson(500, <<"API Key Invalid or Quota Exceeded">>), entries)
      ELSE Respond(ErrorJson(500, <<"Intelligence Failure: ">> \o msg), entries)

\* diagnostic_except without the inner try: the outer clause handles the failure
diagnostic_except_outer(msg) == outer_except(msg)

\* except Exception as e (the try of the diagnostic branch)
diagnostic_except(msg) ==
  Respond(ErrorJson(500, <<"Diagnostic Probe Failed: ">> \o msg),
          <<Entry("error", "Diagnostic Check Failed", msg)>>)

\* parse_except with the raw text echoed to the client
parse_except_leaky(msg, raw) ==
  Respond(ErrorJson(500, <<"Failed to parse AI response: ">> \o raw),
          <<Entry("error", "Response Parsing failed", msg \o <<"Raw text: ">> \o raw)>>)

\* except (json.JSONDecodeError, ValueError) as je (the try of the normal branch)
parse_except(msg, raw) ==
  Respond(ErrorJson(500, <<"Failed to parse AI response. Please try again.">>),
          <<Entry("error", "Response Parsing failed", msg \o <<"Raw text: ">> \o raw)>>)

\* not api_key
not_api_key(k) == k \in {"<unset>", ""}

\* not_context that tests the value only when the field is there
not_context_present_only(body) == body.context = "falsy"

\* not context, with context = data.get('context')
not_context(body) == body.context \in {"absent", "falsy"}

\* data.get('diagnosticMode', False), as the condition of an if
is_diagnostic(body) == body.diagnosticMode = "true"

RequestJsonMsg == <<"4", "1", "5", " Unsupported Media Type">>
AttributeErrorMsg == <<"'list' object has no attribute 'get'">>

\* try_block with the context check moved before the API_KEY check
try_block_context_first(api_key, body) ==
  IF body.json = "invalid" THEN outer_except(RequestJsonMsg)
  ELSE IF body.json # "object" THEN outer_except(AttributeErrorMsg)
  ELSE IF not_context(body)
  THEN Respond(ErrorJson(400, <<"Data Context Missing">>),
               <<Entry("error", "Request missing 'context' data.", << >>)>>)
  ELSE IF not_api_key(api_key)
  THEN Respond(ErrorJson(500, <<"Server Configuration Error: API_KEY Missing">>),
               <<Entry("error", "API_KEY environment variable is not set.", << >>)>>)
  ELSE IF is_diagnostic(body)
  THEN Call("diagnostic", <<Entry("info", "Running Diagnostic Connectivity Check", << >>)>>)
  ELSE Call("normal", <<Entry("info", "Starting Full Executive Report Synthesis...", << >>)>>)

\* the body of the outer try, up to the outbound call
try_block(api_key, body) ==
  IF not_api_key(api_key)
  THEN Respond(ErrorJson(500, <<"Server Configuration Error: API_KEY Missing">>),
               <<Entry("error", "API_KEY environment variable is not set.", << >>)>>)
  ELSE IF body.json = "invalid" THEN outer_except(RequestJsonMsg)
  ELSE IF body.json # "object" THEN outer_except(AttributeErrorMsg)
  ELSE IF not_context(body)
  THEN Respond(ErrorJson(400, <<"Data Context Missing">>),
               <<Entry("error", "Request missing 'context' data.", << >>)>>)
  ELSE IF is_diagnostic(body)
  THEN Call("diagnostic", <<Entry("info", "Running Diagnostic Connectivity Check", << >>)>>)
  ELSE Call("normal", <<Entry("info", "Starting Full Executive Report Synthesis...", << >>)>>)

\* token[:4]
Prefix4(v) == SubSeq(v, 1, IF Len(v) < 4 THEN Len(v) ELSE 4)

\* analyze(), from its entry to its first response or to the outbound call
analyze_begin(e, headers, body) ==
  IF ~(headers.present /\ headers.value = e.ACCESS_TOKEN)
  THEN IF ~headers.present
       THEN \* None[:4] raises TypeError before the try is entered
            Respond(Unhandled, << >>)
       ELSE Respond(ErrorJson(401, <<"Unauthorized Access Denied">>),
                    <<Entry("warning", "Unauthorized access attempt. Token provided",
                            Prefix4(headers.value) \o <<"***">>)>>)
  ELSE try_block(e.API_KEY, body)

\* analyze(), after generate_content returned a response with this text
analyze_on_text(m, t) ==
  IF m = "diagnostic"
  THEN LET entries == <<Entry("info", "Diagnostic check received response from Gemini.", << >>)>>
           cleaned == clean_json_text(t)
       IN  IF json_valid(cleaned)
           THEN Respond(Json(200, json_loads(cleaned)), entries)
           ELSE LET d == diagnostic_except(JSONDecodeErrorMsg)
                IN  Respond(d.resp, entries \o d.log)
  ELSE LET cleaned_text == clean_json_text(t)
       IN  IF cleaned_text = << >>
           THEN LET x == parse_except(<<"Empty response from AI Model">>, t)
                IN  Respond(x.resp,
                            <<Entry("error", "Gemini returned empty response text.", << >>)>>
                              \o x.log)
           ELSE IF json_valid(cleaned_text)
           THEN Respond(Json(200, json_loads(cleaned_text)),
                        <<Entry("info", "Synthesis successful. Returning JSON.", << >>)>>)
           ELSE parse_except(JSONDecodeErrorMsg, t)

\* analyze_on_raise with the call issued again after a failure
analyze_on_raise_retry(m, e) ==
  Call(m, <<Entry("warning", "generate_content failed, retrying", str(e))>>)

\* analyze(), after generate_content raised e
analyze_on_raise(m, e) ==
  IF m = "diagnostic" THEN diagnostic_except(str(e)) ELSE outer_except(str(e))

\* -------------------------------------------------------------- actions
IncomingEntry == Entry("info", "Incoming API Request: POST /api/analyze", << >>)

CleanIdle == cpc = "off" /\ cin = << >> /\ cout = << >> /\ cout2 = << >>

Init ==
  /\ pc = "idle"
  /\ env \in Envs
  /\ req = NoRequest
  /\ mode = "none"
  /\ up = NoUpstream
  /\ calls = 0
  /\ resp = NoResponse
  /\ log = << >>
  /\ CleanIdle

\* a run of handler code ended with outcome o
Step(o) ==
  /\ pc' = IF o.call THEN "calling" ELSE "responded"
  /\ mode' = IF o.call THEN o.mode ELSE mode
  /\ calls' = IF o.call THEN calls + 1 ELSE calls
  /\ resp' = o.resp
  /\ log' = log \o o.log

\* POST /api/analyze arrives: log_request_info, then analyze
Receive(headers, body) ==
  /\ pc = "idle"
  /\ req' = [headers |-> headers, body |-> body]
  /\ LET o == analyze_begin(env, headers, body)
     IN  Step([o EXCEPT !.log = <<IncomingEntry>> \o o.log])
  /\ UNCHANGED <<env, up, cleanVars>>

\* client.models.generate_content returns
UpstreamReturns(t) ==
  /\ pc = "calling"
  /\ up' = Returned(t)
  /\ Step(analyze_on_text(mode, t))
  /\ UNCHANGED <<env, req, cleanVars>>

\* client.models.generate_content raises
UpstreamRaises(e) ==
  /\ pc = "calling"
  /\ up' = Raised(e)
  /\ Step(analyze_on_raise(mode, e))
  /\ UNCHANGED <<env, req, cleanVars>>

\* the response is sent; nothing of the request outlives it
Deliver ==
  /\ pc = "responded"
  /\ pc' = "idle"
  /\ req' = NoRequest
  /\ mode' = "none"
  /\ up' = NoUpstream
  /\ calls' = 0
  /\ resp' = NoResponse
  /\ log' = << >>
  /\ UNCHANGED <<env, cleanVars>>

Next ==
  \/ pc = "idle" /\ \E h \in Headers, b \in Bodies : Receive(h, b)
  \/ pc = "calling" /\ \E t \in Texts : UpstreamReturns(t)
  \/ pc = "calling" /\ \E e \in Errors : UpstreamRaises(e)
  \/ Deliver

Spec == Init /\ [][Next]_vars

\* ------------------------------------- clean_json_text as a pure function
HandlerIdle ==
  /\ pc = "off" /\ env = [ACCESS_TOKEN |-> DefaultToken, API_KEY |-> "<unset>"]
  /\ req = NoRequest /\ mode = "none" /\ up = NoUpstream /\ calls = 0
  /\ resp = NoResponse /\ log = << >>

InitClean ==
  /\ HandlerIdle
  /\ cpc = "input"
  /\ cin \in Texts
  /\ cout = << >>
  /\ cout2 = << >>

\* cleaned_text = clean_json_text(response.text)
CleanOnce ==
  /\ cpc = "input"
  /\ cpc' = "cleaned"
  /\ cout' = clean_json_text(cin)
  /\ UNCHANGED <<cin, cout2, handlerVars>>

\* the function applied to its own result
CleanAgain ==
  /\ cpc = "cleaned"
  /\ cpc' = "recleaned"
  /\ cout2' = clean_json_text(cout)
  /\ UNCHANGED <<cin, cout, handlerVars>>

NextClean == CleanOnce \/ CleanAgain

SpecClean == InitClean /\ [][NextClean]_vars

\* ------------------------------------------------------------- properties
Done == pc = "responded"
Authorized == req.headers.present /\ req.headers.value = env.ACCESS_TOKEN
KeySet == env.API_KEY \notin {"<unset>", ""}
ObjectBody == req.body.json = "object"
PassesChecks == Authorized /\ KeySet /\ ObjectBody /\ req.body.context = "present"
Diagnostic == req.body.diagnosticMode = "true"

IsErrorJson(r) ==
  r.kind = "json" /\ r.json.type = "object" /\ DOMAIN r.json.fields = {"error"}
ErrorOf(r) == r.json.fields.error
HasBothFields(r) ==
  /\ r.kind = "json" /\ r.json.type = "object"
  /\ {"emailText", "htmlDashboard"} \subseteq DOMAIN r.json.fields

QuotaMsg == <<"API Key Invalid or Quota Exceeded">>
ParseMsg == <<"Failed to parse AI response. Please try again.">>
ConfigMsg == <<"Server Configuration Error: API_KEY Missing">>
ContextMsg == <<"Data Context Missing">>
DiagPrefix == "Diagnostic Probe Failed: "
NormalHeads == {QuotaMsg[1], ParseMsg[1], ConfigMsg[1], ContextMsg[1],
                "Intelligence Failure: ", "Unauthorized Access Denied"}

ParseFails(t) == LET c == clean_json_text(t) IN c = << >> \/ ~json_valid(c)

\* s occurs in m as a run of consecutive lexemes
Occurs(s, m) ==
  \E i \in 0..(Len(m) - Len(s)) : \A j \in 1..Len(s) : m[i + j] = s[j]

\* C1: every request whose Authorization header is absent or differs from
\* ACCESS_TOKEN is answered 401 with the generic error body, and causes no call
\* to the generation API.
C1_UnauthorizedIs401 ==
  Done /\ ~Authorized =>
    resp = ErrorJson(401, <<"Unauthorized Access Denied">>) /\ calls = 0

C3_NoPartialResults ==
  Done /\ Authorized =>
    \/ resp.status = 200 /\ HasBothFields(resp)
    \/ resp.status # 200 /\ IsErrorJson(resp)

\* C4: no retries: a request causes at most one call to the generation API,
\* exactly one when it passes the authorization, API_KEY and context checks and
\* none otherwise; when that call fails the request ends with an error response
\* and the count stays at one.
C4_NoRetries ==
  /\ calls <= 1
  /\ pc = "calling" => calls = 1
  /\ Done => calls = IF PassesChecks THEN 1 ELSE 0
  /\ up.kind = "raised" => Done /\ calls = 1 /\ resp.status # 200 /\ IsErrorJson(resp)

C4_Witness == Done /\ up.kind = "raised" /\ calls = 1 /\ resp.status = 500

\* C5: for an authorized request the failures are reported in the order
\* API_KEY missing (500), context missing (400), call failure (500), parse
\* failure (500): the response is that of the first condition that holds.
C5_Priority ==
  Done /\ Authorized =>
    /\ ~KeySet => resp = ErrorJson(500, ConfigMsg) /\ calls = 0
    /\ KeySet /\ ObjectBody /\ req.body.context # "present" =>
         resp = ErrorJson(400, ContextMsg) /\ calls = 0
    /\ PassesChecks /\ up.kind = "raised" =>
         /\ resp.status = 500 /\ IsErrorJson(resp)
         /\ ErrorOf(resp) \in {QuotaMsg, <<"Intelligence Failure: ">> \o str(up.err),
                               <<DiagPrefix>> \o str(up.err)}
    /\ PassesChecks /\ up.kind = "returned" /\ ParseFails(up.text) =>
         /\ resp.status = 500 /\ IsErrorJson(resp)
         /\ ErrorOf(resp) \in {ParseMsg, <<DiagPrefix>> \o JSONDecodeErrorMsg}

C5_Witness ==
  /\ Done /\ Authorized /\ ~KeySet /\ ObjectBody /\ req.body.context = "absent"
  /\ resp = ErrorJson(500, ConfigMsg)

\* C6: whenever the call to the generation API raises, in normal or diagnostic
\* mode, the client receives a JSON error object with status 500; the exception
\* does not leave the handler.
C6_UpstreamErrorStructured ==
  Done /\ up.kind = "raised" => resp.status = 500 /\ IsErrorJson(resp)

C6_Witness ==
  /\ Done /\ up.kind = "raised" /\ ~Diagnostic /\ up.err.code = 0
  /\ resp = ErrorJson(500, <<"Intelligence Failure: ">> \o up.err.detail)

\* C7: a normal-mode call failure that is an upstream 403 is reported as "API
\* Key Invalid or Quota Exceeded", and that message is returned only for an
\* upstream 403.
C7_QuotaMessageIff403 ==
  Done =>
    /\ ~Diagnostic /\ up.kind = "raised" /\ up.err.code = 403 =>
         resp = ErrorJson(500, QuotaMsg)
    /\ resp = ErrorJson(500, QuotaMsg) => up.kind = "raised" /\ up.err.code = 403

\* C8: in diagnostic mode (authorized, API_KEY set, context present) a probe
\* whose call raises or whose text does not parse is answered 500 "Diagnostic
\* Probe Failed: <cause>", a body no normal-mode failure has; a normal-mode
\* failure is never answered with the diagnostic body.
C8_DiagnosticFailureDistinct ==
  Done /\ PassesChecks =>
    /\ Diagnostic /\ up.kind = "raised" =>
         resp = ErrorJson(500, <<DiagPrefix>> \o str(up.err))
    /\ Diagnostic /\ up.kind = "returned" /\ ~json_valid(clean_json_text(up.text)) =>
         resp = ErrorJson(500, <<DiagPrefix>> \o JSONDecodeErrorMsg)
    /\ Diagnostic /\ resp.status # 200 =>
         IsErrorJson(resp) /\ ErrorOf(resp)[1] \notin NormalHeads
    /\ ~Diagnostic /\ resp.status # 200 =>
         IsErrorJson(resp) /\ ErrorOf(resp)[1] # DiagPrefix

C8_Witness ==
  /\ Done /\ PassesChecks /\ Diagnostic /\ up.kind = "raised" /\ up.err.code = 403
  /\ ErrorOf(resp) = <<DiagPrefix, "4", "0", "3">> \o up.err.detail

\* C9: in normal mode a returned text that is empty, or is not valid JSON after
\* fence stripping, is answered 500 with the fixed message; the raw text goes to
\* the log and no part of the body is the raw text.
C9_ParseFailureGeneric ==
  Done /\ mode = "normal" /\ up.kind = "returned" /\ ParseFails(up.text) =>
    /\ resp = ErrorJson(500, ParseMsg)
    /\ \E k \in 1..Len(log) :
         log[k].level = "error" /\ Occurs(<<"Raw text: ">> \o up.text, log[k].data)
    /\ up.text # << >> => ~Occurs(up.text, ErrorOf(resp))

C9_Witness ==
  /\ Done /\ mode = "normal" /\ up = Returned(<<FENCE, TAG, JUNK, FENCE>>)
  /\ resp = ErrorJson(500, ParseMsg)

\* C10: a text holding a fence opened with the json tag in either letter case
\* and closed by a fence is cleaned to the interior of such a fence, trimmed; a
\* text without one is cleaned to itself, trimmed; cleaning a cleaned text
\* changes nothing.
HasJsonFence(t) ==
  \E i \in 1..Len(t), k \in 1..Len(t) :
    i + 1 < k /\ t[i] = FENCE /\ t[i + 1] \in {TAG, TAGUP} /\ t[k] = FENCE

FenceInteriors(t) ==
  {strip(SubSeq(t, ik[1] + 2, ik[2] - 1)) :
     ik \in {x \in (1..Len(t)) \X (1..Len(t)) :
               x[1] + 1 < x[2] /\ t[x[1]] = FENCE /\ t[x[1] + 1] \in {TAG, TAGUP}
               /\ t[x[2]] = FENCE}}

C10_CleanAsSpecified ==
  /\ cpc \in {"cleaned", "recleaned"} =>
       IF HasJsonFence(cin) THEN cout \in FenceInteriors(cin) ELSE cout = strip(cin)
  /\ cpc = "recleaned" => cout2 = cout

\* the same with the tag in lower case only, as the pattern is written
C10_LowerCaseOnly ==
  (\A i \in 1..Len(cin) : cin[i] # TAGUP) => C10_CleanAsSpecified

\* cleaning is idempotent
C10_Idempotent == cpc = "recleaned" => cout2 = cout

====
